---- MODULE Spec2Model ----
(***************************************************************************)
(* Feature extraction, schema building and vector encoding of             *)
(* AITest/preprocess/feature_utils.py, with the training and inference    *)
(* callers of AITest/scripts.                                              *)
(*                                                                         *)
(* Python strings are sequences of one-character strings, Python dicts    *)
(* are sequences of <<key, value>> pairs in insertion order with unique   *)
(* keys, Python values are records tagged by their type in field t.       *)
(***************************************************************************)
EXTENDS Integers, Sequences, FiniteSets, TLC

(***************************************************************************)
(* Strings                                                                 *)
(***************************************************************************)

\* the characters of the model in code point order (str comparison)
CharOrder ==
    << " ", "\"", ",", ".", "0", "1", "2", "3", "4", "5", "6", "7", "8", "9",
       ":", "[", "]", "_", "a", "b", "c", "d", "e", "f", "g", "h", "i", "j",
       "k", "l", "m", "n", "o", "p", "q", "r", "s", "t", "u", "v", "w", "x",
       "y", "z", "{", "}" >>

Ord(c) == CHOOSE i \in 1..Len(CharOrder) : CharOrder[i] = c

DigitChars == <<"0", "1", "2", "3", "4", "5", "6", "7", "8", "9">>

IsDigit(c) == \E i \in 1..Len(DigitChars) : DigitChars[i] = c

DigitVal(c) == (CHOOSE i \in 1..Len(DigitChars) : DigitChars[i] = c) - 1

\* a < b for Python str
RECURSIVE StrLess(_, _)
StrLess(a, b) ==
    IF b = <<>> THEN FALSE
    ELSE IF a = <<>> THEN TRUE
    ELSE IF a[1] = b[1] THEN StrLess(Tail(a), Tail(b))
    ELSE Ord(a[1]) < Ord(b[1])

\* s.startswith(p)
StartsWith(s, p) == Len(s) >= Len(p) /\ SubSeq(s, 1, Len(p)) = p

\* s[n:]
DropPrefix(s, n) == SubSeq(s, n + 1, Len(s))

\* s.find(p) + 1, 0 when p does not occur in s
FindStr(s, p) ==
    LET hits == {i \in 1..(Len(s) - Len(p) + 1) : SubSeq(s, i, i + Len(p) - 1) = p}
    IN  IF hits = {} THEN 0 ELSE CHOOSE i \in hits : \A j \in hits : i <= j

\* p in s
Contains(s, p) == FindStr(s, p) # 0

\* s.partition(p) for a p that occurs in s: <<head, p, tail>>
Partition(s, p) ==
    LET i == FindStr(s, p)
    IN  <<SubSeq(s, 1, i - 1), p, SubSeq(s, i + Len(p), Len(s))>>

\* str(n) for an int n >= 0
RECURSIVE IntToStr(_)
IntToStr(n) ==
    IF n < 10 THEN <<DigitChars[n + 1]>>
    ELSE IntToStr(n \div 10) \o <<DigitChars[(n % 10) + 1]>>

\* int(s) for a string of digits
RECURSIVE DigitsToInt(_)
DigitsToInt(s) ==
    IF s = <<>> THEN 0
    ELSE 10 * DigitsToInt(SubSeq(s, 1, Len(s) - 1)) + DigitVal(s[Len(s)])

AllDigits(s) == \A i \in 1..Len(s) : IsDigit(s[i])

\* the fraction digits without their trailing zeros
RECURSIVE StripZeros(_)
StripZeros(s) ==
    IF s # <<>> /\ s[Len(s)] = "0" THEN StripZeros(SubSeq(s, 1, Len(s) - 1)) ELSE s

\* the literals of the source
CatPrefix == <<"_", "c", "a", "t", "_">>
IsSep == <<"_", "_", "i", "s", "_">>
OtherStr == <<"o", "t", "h", "e", "r">>
ItemPrefix == <<"i", "t", "e", "m", "_">>
ValueKey == <<"v", "a", "l", "u", "e">>

(***************************************************************************)
(* Python values                                                           *)
(***************************************************************************)

PyNone == [t |-> "none"]
PyBool(b) == [t |-> "bool", b |-> b]
PyInt(n) == [t |-> "int", n |-> n]
\* a float i.f, f the fraction digits without trailing zeros
PyFloat(i, f) == [t |-> "float", i |-> i, f |-> f]
PyStr(s) == [t |-> "str", s |-> s]
PyList(elems) == [t |-> "list", elems |-> elems]
PyDict(pairs) == [t |-> "dict", pairs |-> pairs]

Zero == PyFloat(0, <<>>)
One == PyFloat(1, <<>>)

\* the outcome of a call: a returned value or a raised exception
Returned(v) == [raised |-> FALSE, val |-> v]
Raised == [raised |-> TRUE, val |-> <<>>]

\* the float of an integer part ip and a fraction part fp, both digits
FloatOfParts(ip, fp) ==
    IF AllDigits(ip) /\ AllDigits(fp) /\ Len(ip) + Len(fp) > 0
    THEN Returned(PyFloat(DigitsToInt(ip), StripZeros(fp)))
    ELSE Raised

\* float(s) for a str s with its first point at p (0: none)
FloatOfStrAt(s, p) ==
    IF p = 0 THEN FloatOfParts(s, <<>>)
    ELSE FloatOfParts(SubSeq(s, 1, p - 1), SubSeq(s, p + 1, Len(s)))

\* float(s) for a str s: digits with at most one point and at least one digit
FloatOfStr(s) == FloatOfStrAt(s, FindStr(s, <<".">>))

\* float(v): ValueError or TypeError is the raised outcome
FloatOf(v) ==
    CASE v.t = "bool" -> Returned(IF v.b THEN One ELSE Zero)
      [] v.t = "int" -> Returned(PyFloat(v.n, <<>>))
      [] v.t = "float" -> Returned(v)
      [] v.t = "str" -> FloatOfStr(v.s)
      [] OTHER -> Raised

\* repr of a float
FloatToStr(v) == IntToStr(v.i) \o <<".">> \o (IF v.f = <<>> THEN <<"0">> ELSE v.f)

\* str(v) for the values a FieldMap holds
StrOf(v) == IF v.t = "str" THEN v.s ELSE FloatToStr(v)

(***************************************************************************)
(* dict                                                                    *)
(***************************************************************************)

DictKeys(d) == {d[i][1] : i \in 1..Len(d)}

DictHas(d, k) == \E i \in 1..Len(d) : d[i][1] = k

\* d.get(k, default)
DictGet(d, k, default) ==
    IF DictHas(d, k) THEN d[CHOOSE i \in 1..Len(d) : d[i][1] = k][2] ELSE default

\* d[k] = v: a new key goes last, a known key keeps its place
DictSet(d, k, v) ==
    IF DictHas(d, k)
    THEN [i \in 1..Len(d) |-> IF d[i][1] = k THEN <<k, v>> ELSE d[i]]
    ELSE Append(d, <<k, v>>)

(***************************************************************************)
(* json.dumps and json.loads, on the characters of CharOrder: no escapes,  *)
(* no sign and no exponent                                                 *)
(***************************************************************************)

RECURSIVE JsonDumps(_)
RECURSIVE DumpElems(_)
RECURSIVE DumpPairs(_)

\* json.dumps(v) with the default separators ", " and ": "
JsonDumps(v) ==
    CASE v.t = "none" -> <<"n", "u", "l", "l">>
      [] v.t = "bool" -> IF v.b THEN <<"t", "r", "u", "e">> ELSE <<"f", "a", "l", "s", "e">>
      [] v.t = "int" -> IntToStr(v.n)
      [] v.t = "float" -> FloatToStr(v)
      [] v.t = "str" -> <<"\"">> \o v.s \o <<"\"">>
      [] v.t = "list" -> <<"[">> \o DumpElems(v.elems) \o <<"]">>
      [] v.t = "dict" -> <<"{">> \o DumpPairs(v.pairs) \o <<"}">>

DumpElems(elems) ==
    IF elems = <<>> THEN <<>>
    ELSE JsonDumps(elems[1])
         \o (IF Len(elems) > 1 THEN <<",", " ">> ELSE <<>>)
         \o DumpElems(Tail(elems))

DumpPairs(pairs) ==
    IF pairs = <<>> THEN <<>>
    ELSE <<"\"">> \o pairs[1][1] \o <<"\"", ":", " ">> \o JsonDumps(pairs[1][2])
         \o (IF Len(pairs) > 1 THEN <<",", " ">> ELSE <<>>)
         \o DumpPairs(Tail(pairs))

\* the outcome of scanning one JSON value: the value and the next position
Parsed(v, pos) == [ok |-> TRUE, val |-> v, pos |-> pos]
ParseFail == [ok |-> FALSE, val |-> PyNone, pos |-> 0]

RECURSIVE SkipWs(_, _)
SkipWs(s, i) == IF i <= Len(s) /\ s[i] = " " THEN SkipWs(s, i + 1) ELSE i

RECURSIVE ScanDigits(_, _)
ScanDigits(s, i) == IF i <= Len(s) /\ IsDigit(s[i]) THEN ScanDigits(s, i + 1) ELSE i

\* the position of the closing quote at or after i, 0 when there is none
RECURSIVE ScanQuote(_, _)
ScanQuote(s, i) ==
    IF i > Len(s) THEN 0 ELSE IF s[i] = "\"" THEN i ELSE ScanQuote(s, i + 1)

LiteralAt(s, i, lit) == Len(s) >= i + Len(lit) - 1 /\ SubSeq(s, i, i + Len(lit) - 1) = lit

\* the number of integer part s[i..e-1]: with a fraction when a point and a
\* digit follow
NumberFrom(s, i, e) ==
    IF e + 1 <= Len(s) /\ s[e] = "." /\ IsDigit(s[e + 1])
    THEN Parsed(PyFloat(DigitsToInt(SubSeq(s, i, e - 1)),
                        StripZeros(SubSeq(s, e + 1, ScanDigits(s, e + 1) - 1))),
                ScanDigits(s, e + 1))
    ELSE Parsed(PyInt(DigitsToInt(SubSeq(s, i, e - 1))), e)

\* a number at i: 0 or a digit string without leading zero, then an optional
\* fraction of at least one digit
ParseNumber(s, i) == NumberFrom(s, i, IF s[i] = "0" THEN i + 1 ELSE ScanDigits(s, i))

\* the string from the quote at i to the closing quote at q
StringTo(s, i, q) ==
    IF q = 0 THEN ParseFail ELSE Parsed(PyStr(SubSeq(s, i + 1, q - 1)), q + 1)

ParseString(s, i) == StringTo(s, i, ScanQuote(s, i + 1))

RECURSIVE ParseValue(_, _)
RECURSIVE ParseElems(_, _, _)
RECURSIVE ParsePairs(_, _, _)

\* after an element of an array, acc the elements read, j the next position
ElemsSep(s, acc, j) ==
    IF j > Len(s) THEN ParseFail
    ELSE IF s[j] = "]" THEN Parsed(PyList(acc), j + 1)
    ELSE IF s[j] = "," THEN ParseElems(s, j + 1, acc)
    ELSE ParseFail

ElemsAfter(s, acc, r) ==
    IF ~r.ok THEN ParseFail ELSE ElemsSep(s, Append(acc, r.val), SkipWs(s, r.pos))

\* the elements of an array from i on, acc the elements read so far
ParseElems(s, i, acc) == ElemsAfter(s, acc, ParseValue(s, i))

\* after a member of an object, acc the dict read, j the next position
PairsSep(s, acc, j) ==
    IF j > Len(s) THEN ParseFail
    ELSE IF s[j] = "}" THEN Parsed(PyDict(acc), j + 1)
    ELSE IF s[j] = "," THEN ParsePairs(s, SkipWs(s, j + 1), acc)
    ELSE ParseFail

\* a repeated name keeps its last value
PairsAfterValue(s, acc, name, r) ==
    IF ~r.ok THEN ParseFail ELSE PairsSep(s, DictSet(acc, name, r.val), SkipWs(s, r.pos))

PairsColon(s, acc, name, c) ==
    IF c <= Len(s) /\ s[c] = ":"
    THEN PairsAfterValue(s, acc, name, ParseValue(s, c + 1))
    ELSE ParseFail

PairsAfterKey(s, acc, k) ==
    IF ~k.ok THEN ParseFail ELSE PairsColon(s, acc, k.val.s, SkipWs(s, k.pos))

\* the members of an object from i on, acc the dict read so far
ParsePairs(s, i, acc) ==
    IF i <= Len(s) /\ s[i] = "\"" THEN PairsAfterKey(s, acc, ParseString(s, i)) ELSE ParseFail

ParseObject(s, j) ==
    IF j <= Len(s) /\ s[j] = "}" THEN Parsed(PyDict(<<>>), j + 1) ELSE ParsePairs(s, j, <<>>)

ParseArray(s, j) ==
    IF j <= Len(s) /\ s[j] = "]" THEN Parsed(PyList(<<>>), j + 1) ELSE ParseElems(s, j, <<>>)

\* the value that starts at i
ParseValueAt(s, i) ==
    IF i > Len(s) THEN ParseFail
    ELSE CASE s[i] = "{" -> ParseObject(s, SkipWs(s, i + 1))
           [] s[i] = "[" -> ParseArray(s, SkipWs(s, i + 1))
           [] s[i] = "\"" -> ParseString(s, i)
           [] IsDigit(s[i]) -> ParseNumber(s, i)
           [] LiteralAt(s, i, <<"t", "r", "u", "e">>) -> Parsed(PyBool(TRUE), i + 4)
           [] LiteralAt(s, i, <<"f", "a", "l", "s", "e">>) -> Parsed(PyBool(FALSE), i + 5)
           [] LiteralAt(s, i, <<"n", "u", "l", "l">>) -> Parsed(PyNone, i + 4)
           [] OTHER -> ParseFail

\* the value after the white space at i0
ParseValue(s, i0) == ParseValueAt(s, SkipWs(s, i0))

\* the whole text is one value and white space
LoadsOutcome(s, r) ==
    IF r.ok /\ SkipWs(s, r.pos) > Len(s) THEN Returned(r.val) ELSE Raised

\* json.loads(s): the value, or the raised outcome on a decode error
JsonLoads(s) == LoadsOutcome(s, ParseValue(s, 1))

(***************************************************************************)
(* feature_utils.extract_numeric_features                                  *)
(***************************************************************************)

\* one pass of the loop over val.items() of the mapping branch
ExtractDictItem(features, k, v) ==
    IF v.t = "bool" THEN DictSet(features, k, IF v.b THEN One ELSE Zero)
    ELSE IF ~FloatOf(v).raised THEN DictSet(features, k, FloatOf(v).val)
    ELSE IF v.t = "str" THEN DictSet(features, CatPrefix \o k, v)
    ELSE features

\* the loop over val.items() of the mapping branch, features the dict so far
RECURSIVE ExtractDictItems(_, _)
ExtractDictItems(items, features) ==
    IF items = <<>> THEN features
    ELSE ExtractDictItems(Tail(items), ExtractDictItem(features, items[1][1], items[1][2]))

\* one pass of the loop over obj.items() of the JSON string branch
ExtractJsonItem(features, k, v) ==
    IF v.t = "bool" THEN DictSet(features, k, IF v.b THEN One ELSE Zero)
    ELSE IF ~FloatOf(v).raised THEN DictSet(features, k, FloatOf(v).val)
    ELSE IF v.t = "str" THEN DictSet(features, CatPrefix \o k, v)
    ELSE features

\* the loop over obj.items() of the JSON string branch
RECURSIVE ExtractJsonItems(_, _)
ExtractJsonItems(items, features) ==
    IF items = <<>> THEN features
    ELSE ExtractJsonItems(Tail(items), ExtractJsonItem(features, items[1][1], items[1][2]))

\* one pass of the loop over enumerate(val) of the list branch
ExtractListItem(features, i, item) ==
    IF item.t = "bool"
    THEN DictSet(features, ItemPrefix \o IntToStr(i), IF item.b THEN One ELSE Zero)
    ELSE IF ~FloatOf(item).raised
    THEN DictSet(features, ItemPrefix \o IntToStr(i), FloatOf(item).val)
    ELSE IF item.t = "str"
    THEN DictSet(features, CatPrefix \o ItemPrefix \o IntToStr(i), item)
    ELSE features

\* the loop over enumerate(val) of the list branch, i the index of elems[1]
RECURSIVE ExtractListItems(_, _, _)
ExtractListItems(elems, i, features) ==
    IF elems = <<>> THEN features
    ELSE ExtractListItems(Tail(elems), i + 1, ExtractListItem(features, i, elems[1]))

\* the JSON string branch after json.loads, the decode error escaping
ExtractLoadedUncaught(obj) ==
    IF obj.raised THEN Raised
    ELSE IF obj.val.t = "dict" THEN Returned(ExtractJsonItems(obj.val.pairs, <<>>))
    ELSE Returned(<<>>)

\* the JSON string branch after json.loads: any exception leaves features empty
ExtractLoaded(obj) ==
    IF obj.raised THEN Returned(<<>>)
    ELSE IF obj.val.t = "dict" THEN Returned(ExtractJsonItems(obj.val.pairs, <<>>))
    ELSE Returned(<<>>)

\* the JSON string branch without its try/except
ExtractJsonStrUncaught(s) == ExtractLoadedUncaught(JsonLoads(s))

\* the JSON string branch
ExtractJsonStr(s) == ExtractLoaded(JsonLoads(s))

\* the list branch without the categorical case
ExtractListNoCat(elems) ==
    Returned(SelectSeq(ExtractListItems(elems, 0, <<>>), LAMBDA e : e[2].t # "str"))

\* the list branch
ExtractList(elems) == Returned(ExtractListItems(elems, 0, <<>>))

\* the mapping branch
ExtractDict(pairs) == Returned(ExtractDictItems(pairs, <<>>))

\* the branches on the type of val
ExtractValue(val) ==
    CASE val.t = "dict" -> ExtractDict(val.pairs)
      [] val.t = "str" -> ExtractJsonStr(val.s)
      [] val.t = "list" -> ExtractList(val.elems)
      [] OTHER -> Returned(<<>>)

\* extract_numeric_features(sample), sample a dict: the outcome of the call
ExtractNumericFeatures(sample) == ExtractValue(DictGet(sample, ValueKey, PyNone))

(***************************************************************************)
(* feature_utils.vectorize_features                                        *)
(***************************************************************************)

\* [float(dict_features.get(k, 0.0)) for k in keys]: the outcome of the call
VectorizeFeatures(dict_features, keys) ==
    IF \E i \in 1..Len(keys) : FloatOf(DictGet(dict_features, keys[i], Zero)).raised
    THEN Raised
    ELSE Returned([i \in 1..Len(keys) |-> FloatOf(DictGet(dict_features, keys[i], Zero)).val])

(***************************************************************************)
(* feature_utils.build_keys_from_samples                                   *)
(***************************************************************************)

\* max_ohe of the signature
DefaultMaxOhe == 10

\* counter[value] += 1
CounterAdd(counter, value) == DictSet(counter, value, DictGet(counter, value, 0) + 1)

\* cat_counts[field][value] += 1, cat_counts a defaultdict(Counter)
CountAdd(cat_counts, field, value) ==
    DictSet(cat_counts, field, CounterAdd(DictGet(cat_counts, field, <<>>), value))

\* one pass of the loop over f.items(), acc the pair of cat_counts and numeric_keys
CountItem(acc, k, v) ==
    IF StartsWith(k, CatPrefix)
    THEN [acc EXCEPT !.cat_counts = CountAdd(@, DropPrefix(k, Len(CatPrefix)), StrOf(v))]
    ELSE [acc EXCEPT !.numeric_keys = @ \cup {k}]

\* the loop over f.items()
RECURSIVE CountItems(_, _)
CountItems(items, acc) ==
    IF items = <<>> THEN acc
    ELSE CountItems(Tail(items), CountItem(acc, items[1][1], items[1][2]))

\* the loop over samples
RECURSIVE CountSamples(_, _)
CountSamples(samples, acc) ==
    IF samples = <<>> THEN acc
    ELSE CountSamples(Tail(samples),
                      CountItems(ExtractNumericFeatures(samples[1]).val, acc))

\* most_common with equal counts in reverse insertion order
RECURSIVE MostCommonLastSeen(_, _)
MostCommonLastSeen(counter, n) ==
    IF n <= 0 \/ counter = <<>> THEN <<>>
    ELSE LET i == CHOOSE a \in 1..Len(counter) :
                      /\ \A b \in 1..Len(counter) : counter[b][2] <= counter[a][2]
                      /\ \A b \in (a + 1)..Len(counter) : counter[b][2] < counter[a][2]
         IN  <<counter[i]>>
             \o MostCommonLastSeen(
                    SubSeq(counter, 1, i - 1) \o SubSeq(counter, i + 1, Len(counter)), n - 1)

\* counter.most_common(n): by descending count, equal counts in insertion order
RECURSIVE MostCommon(_, _)
MostCommon(counter, n) ==
    IF n <= 0 \/ counter = <<>> THEN <<>>
    ELSE LET i == CHOOSE a \in 1..Len(counter) :
                      /\ \A b \in 1..Len(counter) : counter[b][2] <= counter[a][2]
                      /\ \A b \in 1..(a - 1) : counter[b][2] < counter[a][2]
         IN  <<counter[i]>>
             \o MostCommon(SubSeq(counter, 1, i - 1) \o SubSeq(counter, i + 1, Len(counter)),
                           n - 1)

\* the categories of most_common
TopCategories(top) == [j \in 1..Len(top) |-> top[j][1]]

\* cat_map: per field of cat_counts, the categories of most_common(max_ohe)
DecideCatMap(cat_counts, max_ohe) ==
    [i \in 1..Len(cat_counts) |->
        <<cat_counts[i][1], TopCategories(MostCommon(cat_counts[i][2], max_ohe))>>]

\* sorted(S) for a set of str
RECURSIVE SortStrs(_)
SortStrs(S) ==
    IF S = {} THEN <<>>
    ELSE LET m == CHOOSE x \in S : \A y \in S : x = y \/ StrLess(x, y)
         IN  <<m>> \o SortStrs(S \ {m})

\* the columns of one field with the other column first
OheColumnsOtherFirst(field, cats) ==
    <<field \o IsSep \o OtherStr>> \o [j \in 1..Len(cats) |-> field \o IsSep \o cats[j]]

\* the columns appended for one field: a column per category, then other
OheColumns(field, cats) ==
    [j \in 1..Len(cats) |-> field \o IsSep \o cats[j]] \o <<field \o IsSep \o OtherStr>>

\* the loop over sorted(cat_map.keys())
RECURSIVE AppendOheColumns(_, _, _)
AppendOheColumns(keys, fields, cat_map) ==
    IF fields = <<>> THEN keys
    ELSE AppendOheColumns(keys \o OheColumns(fields[1], DictGet(cat_map, fields[1], <<>>)),
                          Tail(fields), cat_map)

\* keys: the sorted numeric keys, then the columns of the sorted fields
KeysAndCatMap(numeric_keys, cat_map) ==
    [keys |-> AppendOheColumns(SortStrs({k \in numeric_keys : ~StartsWith(k, CatPrefix)}),
                               SortStrs(DictKeys(cat_map)), cat_map),
     cat_map |-> cat_map]

\* the schema of the counts acc
SchemaOfCounts(acc, max_ohe) ==
    KeysAndCatMap(acc.numeric_keys, DecideCatMap(acc.cat_counts, max_ohe))

\* build_keys_from_samples(samples, max_ohe): the pair (keys, cat_map)
BuildKeysFromSamples(samples, max_ohe) ==
    SchemaOfCounts(CountSamples(samples, [cat_counts |-> <<>>, numeric_keys |-> {}]), max_ohe)

(***************************************************************************)
(* feature_utils.vectorize_with_cats                                       *)
(***************************************************************************)

\* the loop that precomputes cats: field -> str(v) of every _cat_ entry
RECURSIVE CollectCats(_, _)
CollectCats(items, cats) ==
    IF items = <<>> THEN cats
    ELSE CollectCats(Tail(items),
                     IF StartsWith(items[1][1], CatPrefix)
                     THEN DictSet(cats, DropPrefix(items[1][1], Len(CatPrefix)),
                                  StrOf(items[1][2]))
                     ELSE cats)

SeqHas(seq, x) == \E i \in 1..Len(seq) : seq[i] = x

\* the value of a column whose category other is compared as any other
OneHotValueNoOther(field, cat, cats, cat_map) ==
    IF DictHas(cats, field) /\ DictGet(cats, field, <<>>) = cat
    THEN Returned(One) ELSE Returned(Zero)

\* the value of the column of category cat of field
OneHotValue(field, cat, cats, cat_map) ==
    IF DictHas(cats, field)
    THEN IF cat = OtherStr
         THEN IF ~SeqHas(DictGet(cat_map, field, <<>>), DictGet(cats, field, <<>>))
              THEN Returned(One) ELSE Returned(Zero)
         ELSE IF DictGet(cats, field, <<>>) = cat THEN Returned(One) ELSE Returned(Zero)
    ELSE Returned(Zero)

\* the value of a key that contains __is_: field, _, cat = key.partition('__is_')
OneHotColumn(key, cats, cat_map) ==
    OneHotValue(Partition(key, IsSep)[1], Partition(key, IsSep)[3], cats, cat_map)

\* the value of any other key, read with dict_features[key]
NumericColumnSubscript(dict_features, key) ==
    IF DictHas(dict_features, key) THEN FloatOf(DictGet(dict_features, key, Zero)) ELSE Raised

\* the value of any other key: float(dict_features.get(key, 0.0))
NumericColumn(dict_features, key) == FloatOf(DictGet(dict_features, key, Zero))

\* the value of one key
ColumnValue(key, dict_features, cats, cat_map) ==
    IF Contains(key, IsSep) THEN OneHotColumn(key, cats, cat_map)
    ELSE NumericColumn(dict_features, key)

\* the values of the loop, or the exception of one of them
ColumnOutcome(xs) ==
    IF \E i \in 1..Len(xs) : xs[i].raised THEN Raised
    ELSE Returned([i \in 1..Len(xs) |-> xs[i].val])

\* the loop over keys
VectorizeKeys(keys, dict_features, cats, cat_map) ==
    ColumnOutcome([i \in 1..Len(keys) |-> ColumnValue(keys[i], dict_features, cats, cat_map)])

\* vectorize_with_cats(dict_features, keys, cat_map): the outcome of the call
VectorizeWithCats(dict_features, keys, cat_map) ==
    VectorizeKeys(keys, dict_features, CollectCats(dict_features, <<>>), cat_map)

(***************************************************************************)
(* The inputs                                                              *)
(***************************************************************************)

\* the bounds
MaxPairs == 2
MaxItems == 2
MaxCorpus == 3
MaxOhe == 2

\* field names and values of the payloads
N_x == <<"x">>
N_cat_x == <<"_", "c", "a", "t", "_", "x">>
N_mode == <<"m", "o", "d", "e">>
N_temp == <<"t", "e", "m", "p">>
N_on == <<"o", "n">>
N_a_is_b == <<"a", "_", "_", "i", "s", "_", "b">>
N_unknown == <<"u", "n", "k", "n", "o", "w", "n">>
V_abc == <<"a", "b", "c">>
V_seven == <<"7">>
V_auto == <<"a", "u", "t", "o">>
V_man == <<"m", "a", "n">>
V_zzz == <<"z", "z", "z">>
V_not_json == <<"n", "o", "t", " ", "j", "s", "o", "n">>
V_json_list == <<"[", "1", "]">>
V_json_open == <<"{", "\"", "x", "\"", ":", " ", "1">>

\* a raw sample with payload v
MkSample(v) == <<<<ValueKey, v>>>>

FieldNames == {N_x, N_cat_x, N_mode}

FieldValues ==
    {PyBool(TRUE), PyInt(1), PyFloat(2, <<"5">>), PyStr(V_abc), PyStr(V_seven), PyNone,
     PyList(<<PyInt(1)>>)}

\* the mappings of at most MaxPairs entries
PayloadDicts ==
    UNION {{d \in [1..n -> FieldNames \X FieldValues] :
               \A i, j \in 1..n : i # j => d[i][1] # d[j][1]} : n \in 0..MaxPairs}

\* the sequences of at most MaxItems entries
PayloadLists == UNION {[1..n -> FieldValues] : n \in 0..MaxItems}

\* the raw samples of the extractor: mappings, their JSON texts, sequences,
\* other strings, scalars and a record without value
ExtractSamples ==
    {MkSample(PyDict(d)) : d \in PayloadDicts}
    \cup {MkSample(PyStr(JsonDumps(PyDict(d)))) : d \in PayloadDicts}
    \cup {MkSample(PyList(l)) : l \in PayloadLists}
    \cup {MkSample(PyStr(t)) : t \in {V_not_json, V_json_list, V_json_open, V_seven, <<>>}}
    \cup {MkSample(PyInt(1)), MkSample(PyBool(TRUE)), MkSample(PyNone), <<>>}

\* the raw samples of a training corpus
CorpusSamples ==
    {MkSample(PyDict(<<<<N_mode, PyStr(V_auto)>>, <<N_temp, PyInt(7)>>>>)),
     MkSample(PyDict(<<<<N_mode, PyStr(OtherStr)>>>>)),
     MkSample(PyDict(<<<<N_a_is_b, PyInt(3)>>>>)),
     MkSample(PyStr(JsonDumps(PyDict(<<<<N_mode, PyStr(V_man)>>, <<N_on, PyBool(TRUE)>>>>)))),
     MkSample(PyDict(<<<<N_x, PyInt(1)>>, <<N_cat_x, PyInt(2)>>>>)),
     MkSample(PyDict(<<<<N_mode, PyStr(N_a_is_b)>>, <<N_a_is_b, PyStr(V_auto)>>>>))}

\* the raw samples that are encoded
EncodeSamples ==
    {MkSample(PyDict(<<<<N_mode, PyStr(V_auto)>>, <<N_temp, PyInt(7)>>>>)),
     MkSample(PyDict(<<<<N_mode, PyStr(OtherStr)>>>>)),
     MkSample(PyDict(<<<<N_mode, PyStr(V_zzz)>>, <<N_unknown, PyInt(1)>>>>)),
     MkSample(PyDict(<<<<N_a_is_b, PyInt(3)>>>>)),
     MkSample(PyDict(<<<<N_x, PyInt(1)>>, <<N_cat_x, PyInt(2)>>>>)),
     MkSample(PyDict(<<<<N_mode, PyStr(N_a_is_b)>>, <<N_a_is_b, PyStr(V_auto)>>>>)),
     MkSample(PyList(<<PyStr(V_auto), PyInt(7)>>)),
     MkSample(PyStr(V_not_json)),
     <<>>}

(***************************************************************************)
(* The state                                                               *)
(***************************************************************************)

VARIABLES
    corpus,        \* the samples of the training corpus
    schema,        \* the (keys, cat_map) of build_keys_from_samples, once built
    sample,        \* the raw sample last given to extract_numeric_features
    fields,        \* the outcome of that call: the FieldMap
    vec,           \* the outcome of vectorize_with_cats on fields and schema
    model_file,    \* what train_if dumped: keys and cat_map beside the model
    train_status,  \* how train_if ended
    score_vec,     \* the outcome of vectorize_features in the inference loop
    heap,          \* the list and dict objects the calls created, by reference
    held,          \* the references the caller holds: schemas, FieldMap, vector
    core_events,   \* how many events Core Data holds; event n is the n-th created
    last_event_id, \* app.last_event_id, 0 for None
    window,        \* the events of the latest poll, newest first
    batch,         \* the events the latest poll forwarded, in order
    seen_before,   \* the events forwarded before the latest poll
    last_before    \* last_event_id before the latest poll

pipelineVars == <<corpus, schema, sample, fields, vec, model_file, train_status, score_vec>>
frameVars == <<heap, held>>
forwarderVars == <<core_events, last_event_id, window, batch, seen_before, last_before>>

vars == <<pipelineVars, frameVars, forwarderVars>>

NotCalled == [called |-> FALSE, raised |-> FALSE, val |-> <<>>]
Outcome(r) == [called |-> TRUE, raised |-> r.raised, val |-> r.val]

Unbuilt == [built |-> FALSE, keys |-> <<>>, cat_map |-> <<>>, max_ohe |-> 0]
NoFile == [exists |-> FALSE, keys |-> <<>>, cat_map |-> <<>>]

\* no reference held yet: 0 is no object
NoRefs == [keys |-> 0, cat_map |-> 0, new_keys |-> 0, new_cat_map |-> 0,
           fields |-> 0, out |-> 0]

Init ==
    /\ corpus = <<>>
    /\ schema = Unbuilt
    /\ sample = <<>>
    /\ fields = NotCalled
    /\ vec = NotCalled
    /\ model_file = NoFile
    /\ train_status = "none"
    /\ score_vec = NotCalled
    /\ heap = <<>>
    /\ held = NoRefs
    /\ core_events = 0
    /\ last_event_id = 0
    /\ window = <<>>
    /\ batch = <<>>
    /\ seen_before = {}
    /\ last_before = 0

(***************************************************************************)
(* The operations                                                          *)
(***************************************************************************)

\* one more sample in the batch the schema is built from
AddSample(s) ==
    /\ ~schema.built
    /\ train_status = "none"
    /\ Len(corpus) < MaxCorpus
    /\ corpus' = Append(corpus, s)
    /\ UNCHANGED <<schema, sample, fields, vec, model_file, train_status, score_vec>>
    /\ UNCHANGED <<frameVars, forwarderVars>>

\* the schema of a returned (keys, cat_map)
Built(r, max_ohe) ==
    [built |-> TRUE, keys |-> r.keys, cat_map |-> r.cat_map, max_ohe |-> max_ohe]

\* keys, cat_map = build_keys_from_samples(corpus, max_ohe)
Build(max_ohe) ==
    /\ ~schema.built
    /\ schema' = Built(BuildKeysFromSamples(corpus, max_ohe), max_ohe)
    /\ UNCHANGED <<corpus, sample, fields, vec, model_file, train_status, score_vec>>
    /\ UNCHANGED <<frameVars, forwarderVars>>

\* fields = extract_numeric_features(s)
Extract(s) ==
    /\ ~fields.called
    /\ sample' = s
    /\ fields' = Outcome(ExtractNumericFeatures(s))
    /\ UNCHANGED <<corpus, schema, vec, model_file, train_status, score_vec>>
    /\ UNCHANGED <<frameVars, forwarderVars>>

\* vec = vectorize_with_cats(fields, keys, cat_map)
Encode ==
    /\ schema.built
    /\ fields.called /\ ~fields.raised
    /\ ~vec.called
    /\ vec' = Outcome(VectorizeWithCats(fields.val, schema.keys, schema.cat_map))
    /\ UNCHANGED <<corpus, schema, sample, fields, model_file, train_status, score_vec>>
    /\ UNCHANGED <<frameVars, forwarderVars>>

\* the rows of X in train_if: vectorize_with_cats of every extracted sample
TrainMatrix(samples, keys, cat_map) ==
    [i \in 1..Len(samples) |->
        VectorizeWithCats(ExtractNumericFeatures(samples[i]).val, keys, cat_map).val]

\* how train_if ends on the matrix X: an empty X aborts; IsolationForest.fit
\* rejects rows of no feature with a ValueError, which leaves train_if before
\* the dump
TrainStatus(X, keys) ==
    IF X = <<>> THEN "aborted" ELSE IF keys = <<>> THEN "fit_raised" ELSE "saved"

\* what joblib.dump leaves on disk
TrainFile(status, r) ==
    IF status = "saved"
    THEN [exists |-> TRUE, keys |-> r.keys, cat_map |-> r.cat_map]
    ELSE NoFile

\* train_if from the (keys, cat_map) of collect_feature_keys on
TrainWith(r) ==
    /\ train_status' = TrainStatus(TrainMatrix(corpus, r.keys, r.cat_map), r.keys)
    /\ model_file' = TrainFile(train_status', r)

\* train_if(input_path, out_path) on the corpus of input_path
TrainIf ==
    /\ train_status = "none"
    /\ TrainWith(BuildKeysFromSamples(corpus, DefaultMaxOhe))
    /\ UNCHANGED <<corpus, schema, sample, fields, vec, score_vec>>
    /\ UNCHANGED <<frameVars, forwarderVars>>

\* the loop body of run_inference.main on the extracted features f
Score(f) ==
    /\ fields' = Outcome(f)
    /\ score_vec' = Outcome(VectorizeFeatures(f.val, model_file.keys))

\* one event of the loop of run_inference.main: the keys of load_model,
\* extract_numeric_features of the readings, then vectorize_features
Infer(e) ==
    /\ model_file.exists
    /\ ~score_vec.called
    /\ sample' = e
    /\ Score(ExtractNumericFeatures(e))
    /\ UNCHANGED <<corpus, schema, vec, model_file, train_status>>
    /\ UNCHANGED <<frameVars, forwarderVars>>

\* the schema is built once from the batch, then samples are encoded against it
Next ==
    \/ \E s \in CorpusSamples : AddSample(s)
    \/ \E m \in 0..MaxOhe : Build(m)
    \/ \E s \in EncodeSamples : schema.built /\ Extract(s)
    \/ Encode

Spec == Init /\ [][Next]_vars

\* the extractor on its own, on any raw sample
InitExtract ==
    /\ corpus = <<>>
    /\ schema = Unbuilt
    /\ sample \in ExtractSamples
    /\ fields = NotCalled
    /\ vec = NotCalled
    /\ model_file = NoFile
    /\ train_status = "none"
    /\ score_vec = NotCalled
    /\ heap = <<>>
    /\ held = NoRefs
    /\ core_events = 0
    /\ last_event_id = 0
    /\ window = <<>>
    /\ batch = <<>>
    /\ seen_before = {}
    /\ last_before = 0

NextExtract == Extract(sample)

SpecExtract == InitExtract /\ [][NextExtract]_vars

\* the lines of a training file: the corpus samples, and samples no feature
\* is extracted from
TrainSamples == CorpusSamples \cup {MkSample(PyStr(V_not_json)), <<>>}

\* training, then inference against the dumped keys
NextTrain ==
    \/ \E s \in TrainSamples : AddSample(s)
    \/ TrainIf
    \/ \E e \in EncodeSamples : Infer(e)

SpecTrain == Init /\ [][NextTrain]_vars

(***************************************************************************)
(* What the consumers of a FieldMap see in it                              *)
(***************************************************************************)

\* the payload of the current sample: sample.get('value')
Payload == DictGet(sample, ValueKey, PyNone)

SeqSetOf(seq) == {seq[i] : i \in 1..Len(seq)}

\* an entry is categorical for the builder and the encoder when its key
\* carries the marker, numeric otherwise
IsCatEntry(e) == StartsWith(e[1], CatPrefix)
CatFieldOf(e) == DropPrefix(e[1], Len(CatPrefix))

\* the FieldMaps of the corpus, in corpus order
CorpusFieldMaps == [i \in 1..Len(corpus) |-> ExtractNumericFeatures(corpus[i]).val]

\* the entries of a sequence of FieldMaps
RECURSIVE EntriesOf(_)
EntriesOf(fms) ==
    IF fms = <<>> THEN {} ELSE SeqSetOf(fms[1]) \cup EntriesOf(Tail(fms))

\* the names of the numeric entries
NumericNamesOf(entries) == {e[1] : e \in {x \in entries : ~IsCatEntry(x)}}

\* the fields of the categorical entries
CatFieldsOf(entries) == {CatFieldOf(e) : e \in {x \in entries : IsCatEntry(x)}}

NumericNames == NumericNamesOf(EntriesOf(CorpusFieldMaps))
CatFields == CatFieldsOf(EntriesOf(CorpusFieldMaps))

\* the values of field f in the entries of one FieldMap, as the builder reads them
ObservedIn(fm, f) ==
    LET hits == SelectSeq(fm, LAMBDA e : IsCatEntry(e) /\ CatFieldOf(e) = f)
    IN  [j \in 1..Len(hits) |-> StrOf(hits[j][2])]

\* the values of field f over the corpus, in iteration order
RECURSIVE Observed(_, _)
Observed(fms, f) ==
    IF fms = <<>> THEN <<>> ELSE ObservedIn(fms[1], f) \o Observed(Tail(fms), f)

CountIn(seq, v) == Cardinality({i \in 1..Len(seq) : seq[i] = v})

FirstIn(seq, v) == CHOOSE i \in 1..Len(seq) : seq[i] = v /\ \A j \in 1..(i - 1) : seq[j] # v

\* v ranks before w: more occurrences, or as many and seen first
RanksBefore(seq, v, w) ==
    \/ CountIn(seq, v) > CountIn(seq, w)
    \/ CountIn(seq, v) = CountIn(seq, w) /\ FirstIn(seq, v) < FirstIn(seq, w)

Min(a, b) == IF a < b THEN a ELSE b

\* the number of columns of the groups of the fields of S
RECURSIVE GroupWidths(_, _)
GroupWidths(S, cat_map) ==
    IF S = {} THEN 0
    ELSE LET f == CHOOSE x \in S : TRUE
         IN  Len(DictGet(cat_map, f, <<>>)) + 1 + GroupWidths(S \ {f}, cat_map)

\* the number of columns before the group of field f, after n numeric columns
GroupStart(f, cat_map, n) ==
    n + GroupWidths({g \in DictKeys(cat_map) : StrLess(g, f)}, cat_map)

\* the positions of the columns of field f
GroupOf(f, cat_map, n) ==
    (GroupStart(f, cat_map, n) + 1)..(GroupStart(f, cat_map, n) + Len(DictGet(cat_map, f, <<>>)) + 1)

(***************************************************************************)
(* The claims                                                              *)
(***************************************************************************)

\* C1: vectorize_with_cats returns, without raising, a vector as long as keys,
\* for every FieldMap of the extractor and every built schema
VectorLength ==
    vec.called => ~vec.raised /\ Len(vec.val) = Len(schema.keys)

\* C1 witness: a FieldMap with a field unknown to a schema of several columns
VectorLengthWitness ==
    /\ vec.called
    /\ DictHas(fields.val, N_unknown)
    /\ Len(schema.keys) >= 3
    /\ Len(vec.val) = Len(schema.keys)

\* C2: of the columns of a categorical field, exactly one is 1.0 when the
\* FieldMap carries the field, none when it does not, all others being 0.0
OneHotExclusive ==
    vec.called /\ ~vec.raised =>
        LET n == Cardinality(NumericNames)
        IN  \A f \in DictKeys(schema.cat_map) :
                LET group == GroupOf(f, schema.cat_map, n)
                    ones == {p \in group : vec.val[p] = One}
                    zeros == {p \in group : vec.val[p] = Zero}
                IN  /\ ones \cup zeros = group
                    /\ Cardinality(ones) =
                           IF DictHas(fields.val, CatPrefix \o f) THEN 1 ELSE 0

\* C3: the vector of the inference path equals the vector vectorize_with_cats
\* computes for the same FieldMap against the saved keys and cat_map
TrainInferAgree ==
    score_vec.called =>
        LET t == VectorizeWithCats(fields.val, model_file.keys, model_file.cat_map)
        IN  score_vec.raised = t.raised /\ score_vec.val = t.val

\* C4: the value at every numeric column is the FieldMap's value of that
\* field, 0.0 when the FieldMap has none
NumericColumnValues ==
    vec.called /\ ~vec.raised =>
        LET n == Cardinality(NumericNames)
        IN  \A i \in 1..n : vec.val[i] = DictGet(fields.val, schema.keys[i], Zero)

\* C5: keys is the numeric names in ascending order, then per categorical
\* field in ascending order its category columns in cat_map order and its
\* other column
ColumnOrder ==
    schema.built =>
        LET keys == schema.keys
            cat_map == schema.cat_map
            entries == EntriesOf(CorpusFieldMaps)
            names == NumericNamesOf(entries)
            cfields == CatFieldsOf(entries)
            n == Cardinality(names)
        IN  /\ Len(keys) = n + GroupWidths(cfields, cat_map)
            /\ {keys[i] : i \in 1..n} = names
            /\ \A i \in 1..(n - 1) : StrLess(keys[i], keys[i + 1])
            /\ DictKeys(cat_map) = cfields
            /\ \A f \in cfields :
                   LET cats == DictGet(cat_map, f, <<>>)
                       start == GroupStart(f, cat_map, n)
                   IN  /\ \A j \in 1..Len(cats) : keys[start + j] = f \o IsSep \o cats[j]
                       /\ keys[start + Len(cats) + 1] = f \o IsSep \o OtherStr

\* C5 witness: a schema of two numeric columns and two categorical fields,
\* one of them with two categories
ColumnOrderWitness ==
    /\ schema.built
    /\ Cardinality(NumericNames) >= 2
    /\ Cardinality(CatFields) >= 2
    /\ \E f \in CatFields : Len(DictGet(schema.cat_map, f, <<>>)) >= 2

\* C6: cat_map[field] is the first min(max_ohe, distinct values) observed
\* values of the field by descending count, equal counts in first-seen order
CategoryPlanRanked ==
    schema.built =>
        LET fms == CorpusFieldMaps
        IN  \A f \in CatFieldsOf(EntriesOf(fms)) :
            LET obs == Observed(fms, f)
                top == DictGet(schema.cat_map, f, <<>>)
            IN  /\ Len(top) = Min(schema.max_ohe, Cardinality(SeqSetOf(obs)))
                /\ SeqSetOf(top) \subseteq SeqSetOf(obs)
                /\ \A j, k \in 1..Len(top) : j < k => RanksBefore(obs, top[j], top[k])
                /\ \A v \in SeqSetOf(obs) \ SeqSetOf(top) :
                       \A j \in 1..Len(top) : RanksBefore(obs, top[j], v)

\* C6 witness: a field with more values than max_ohe whose most frequent
\* value is not the first one seen
CategoryPlanRankedWitness ==
    /\ schema.built
    /\ schema.max_ohe >= 1
    /\ \E f \in CatFields :
           LET obs == Observed(CorpusFieldMaps, f)
               top == DictGet(schema.cat_map, f, <<>>)
           IN  /\ Cardinality(SeqSetOf(obs)) > schema.max_ohe
               /\ top[1] # obs[1]
               /\ CountIn(obs, top[1]) > CountIn(obs, obs[1])

\* C7: no field of an extracted FieldMap is numeric and categorical at once,
\* and every categorical entry holds a string that float() rejects
FieldNotBoth ==
    fields.called =>
        LET fm == fields.val
        IN  /\ \A i, j \in 1..Len(fm) :
                   ~(IsCatEntry(fm[i]) /\ ~IsCatEntry(fm[j]) /\ CatFieldOf(fm[i]) = fm[j][1])
            /\ \A i \in 1..Len(fm) :
                   IsCatEntry(fm[i]) => fm[i][2].t = "str" /\ FloatOf(fm[i][2]).raised

\* C8: extract_numeric_features returns a FieldMap and never raises; the
\* FieldMap is empty for a string that is not the JSON text of a mapping and
\* for a payload that is no mapping, string or list
ExtractTotal ==
    fields.called =>
        /\ ~fields.raised
        /\ \A i \in 1..Len(fields.val) : fields.val[i][2].t \in {"float", "str"}
        /\ (\/ Payload.t \notin {"dict", "str", "list"}
            \/ Payload.t = "str" /\ JsonLoads(Payload.s).raised
            \/ Payload.t = "str" /\ ~JsonLoads(Payload.s).raised
                                 /\ JsonLoads(Payload.s).val.t # "dict")
           => fields.val = <<>>

\* C8 witness: a string payload that json.loads rejects, extracted to nothing
ExtractTotalWitness ==
    /\ fields.called
    /\ Payload.t = "str"
    /\ JsonLoads(Payload.s).raised
    /\ ~fields.raised
    /\ fields.val = <<>>

\* the entry a key/value pair yields by the rules of the mapping payload
RuleEntry(k, v) ==
    IF v.t = "bool"
    THEN {[kind |-> "numeric", name |-> k, val |-> IF v.b THEN One ELSE Zero]}
    ELSE IF ~FloatOf(v).raised
    THEN {[kind |-> "numeric", name |-> k, val |-> FloatOf(v).val]}
    ELSE IF v.t = "str"
    THEN {[kind |-> "categorical", name |-> k, val |-> v]}
    ELSE {}

\* the entries of a FieldMap: a string is a categorical entry under the key
\* without its marker, a number a numeric entry under the key
TaggedEntries(fm) ==
    {IF fm[i][2].t = "str"
     THEN [kind |-> "categorical", name |-> CatFieldOf(fm[i]), val |-> fm[i][2]]
     ELSE [kind |-> "numeric", name |-> fm[i][1], val |-> fm[i][2]] : i \in 1..Len(fm)}

\* C9: the FieldMap of a mapping payload holds exactly the entries its
\* key/value pairs yield by the boolean, numeric, string and drop rules
ExtractByRules ==
    fields.called /\ Payload.t = "dict" =>
        TaggedEntries(fields.val) =
            UNION {RuleEntry(Payload.pairs[i][1], Payload.pairs[i][2]) :
                       i \in 1..Len(Payload.pairs)}

\* the mapping item_<i> -> elems[i]
ItemMapping(elems) == [i \in 1..Len(elems) |-> <<ItemPrefix \o IntToStr(i - 1), elems[i]>>]

\* C10: a mapping extracts to the same FieldMap natively and as its JSON
\* text, and a sequence extracts as the mapping of item_<i> to its entries
ExtractPathsAgree ==
    fields.called =>
        /\ Payload.t = "dict" =>
               fields.val = ExtractNumericFeatures(MkSample(PyStr(JsonDumps(Payload)))).val
        /\ Payload.t = "list" =>
               fields.val = ExtractNumericFeatures(MkSample(PyDict(ItemMapping(Payload.elems)))).val

\* C10 witness: a sequence of a string and a number, extracted to a
\* categorical and a numeric entry
ExtractPathsAgreeWitness ==
    /\ fields.called
    /\ Payload.t = "list"
    /\ Len(Payload.elems) = 2
    /\ Payload.elems[1].t = "str" /\ Payload.elems[2].t = "int"
    /\ Len(fields.val) = 2
    /\ fields.val[1][1] = CatPrefix \o ItemPrefix \o <<"0">>
    /\ fields.val[2][1] = ItemPrefix \o <<"1">>

(***************************************************************************)
(* The round trip of one corpus                                            *)
(***************************************************************************)

V_manual == <<"m", "a", "n", "u", "a", "l">>

\* a raw sample {"value": {"temp": temp, "mode": mode}}
TempModeSample(temp, mode) ==
    MkSample(PyDict(<<<<N_temp, temp>>, <<N_mode, PyStr(mode)>>>>))

\* the three samples of the corpus, in corpus order
ScenarioCorpus ==
    <<TempModeSample(PyFloat(21, <<"5">>), V_auto),
      TempModeSample(PyFloat(19, <<>>), V_auto),
      TempModeSample(PyFloat(22, <<"1">>), V_manual)>>

\* the sample that is encoded
ScenarioSample == TempModeSample(PyFloat(20, <<>>), V_manual)

\* corpora are drawn from the three samples; the samples encoded are the
\* scenario's and its neighbours
ScenarioEncodeSamples ==
    {ScenarioSample,
     TempModeSample(PyFloat(20, <<>>), V_auto),
     TempModeSample(PyFloat(20, <<>>), V_zzz),
     MkSample(PyDict(<<<<N_temp, PyFloat(20, <<>>)>>>>)),
     MkSample(PyDict(<<<<N_mode, PyStr(V_manual)>>>>))}

NextScenario ==
    \/ \E s \in SeqSetOf(ScenarioCorpus) : AddSample(s)
    \/ \E m \in 0..MaxOhe : Build(m)
    \/ \E s \in ScenarioEncodeSamples : schema.built /\ Extract(s)
    \/ Encode

SpecScenario == Init /\ [][NextScenario]_vars

\* C11: the schema built from the corpus of the three samples {temp 21.5,
\* mode auto}, {temp 19.0, mode auto}, {temp 22.1, mode manual} with a maximum
\* of one category has the columns [temp, mode__is_auto, mode__is_other] and
\* the category plan {mode: [auto]}, and encoding {temp 20.0, mode manual}
\* against it gives [20.0, 0.0, 1.0].
RoundTripScenario ==
    (corpus = ScenarioCorpus /\ schema.built /\ schema.max_ohe = 1) =>
        /\ schema.keys = <<N_temp, N_mode \o IsSep \o V_auto, N_mode \o IsSep \o OtherStr>>
        /\ schema.cat_map = <<<<N_mode, <<V_auto>>>>>>
        /\ (sample = ScenarioSample /\ vec.called) =>
               /\ ~vec.raised
               /\ vec.val = <<PyFloat(20, <<>>), Zero, One>>

\* the scenario's schema was built and its sample encoded
RoundTripScenarioWitness ==
    /\ corpus = ScenarioCorpus
    /\ schema.built /\ schema.max_ohe = 1
    /\ sample = ScenarioSample
    /\ vec.called
    /\ Len(vec.val) = 3

(***************************************************************************)
(* Training on degenerate input                                            *)
(***************************************************************************)

\* model.fit was called: train_if went past the guard on X
FitCalled == train_status \in {"fit_raised", "saved"}

\* the schema train_if builds from the corpus has no column
ZeroWidth == BuildKeysFromSamples(corpus, DefaultMaxOhe).keys = <<>>

\* C12: when the corpus is empty or the schema built from it has no column,
\* train_if returns without calling model.fit and without writing a model
\* file.
TrainGuardsDegenerate ==
    (train_status # "none" /\ (corpus = <<>> \/ ZeroWidth)) =>
        (~FitCalled /\ ~model_file.exists)

(***************************************************************************)
(* The objects of the calls: what a call creates and what it writes        *)
(***************************************************************************)

MaxObjects == 5

\* a reference that is the latest object again
ReusedRef(h) == IF h = <<>> THEN Len(h) + 1 ELSE Len(h)

\* the reference of a newly created list or dict: an object no earlier one is
NewRef(h) == Len(h) + 1

\* the heap with value v at reference ref
Store(h, ref, v) == IF ref > Len(h) THEN Append(h, v) ELSE [h EXCEPT ![ref] = v]

\* the heap after a list or dict display that ends up holding v
Alloc(h, v) == Store(h, NewRef(h), v)

\* build_keys_from_samples creates cat_map = {} and keys = sorted([...]), fills
\* them and returns them; it writes to no other object that outlives the call
BuildInto(h, r) ==
    [heap |-> Alloc(Alloc(h, r.cat_map), r.keys),
     cat_map |-> NewRef(h),
     keys |-> NewRef(Alloc(h, r.cat_map))]

\* the caller keeps the first schema, and a later one beside it
BuiltRefs(b) ==
    /\ heap' = b.heap
    /\ held' = IF held.keys = 0
               THEN [held EXCEPT !.keys = b.keys, !.cat_map = b.cat_map]
               ELSE [held EXCEPT !.new_keys = b.keys, !.new_cat_map = b.cat_map]

\* keys, cat_map = build_keys_from_samples(corpus, max_ohe), a first time or again
FrameBuild(max_ohe) ==
    /\ Len(heap) < MaxObjects
    /\ BuiltRefs(BuildInto(heap, BuildKeysFromSamples(corpus, max_ohe)))
    /\ UNCHANGED <<pipelineVars, forwarderVars>>

\* fields = extract_numeric_features(s): the dict features = {} it returns
FrameExtract(s) ==
    /\ Len(heap) < MaxObjects
    /\ heap' = Alloc(heap, ExtractNumericFeatures(s).val)
    /\ held' = [held EXCEPT !.fields = NewRef(heap)]
    /\ UNCHANGED <<pipelineVars, forwarderVars>>

\* out = vectorize_with_cats(fields, keys, cat_map): the list out = [] it
\* returns; dict_features, keys and cat_map are only read (.items(), in,
\* .get(), iteration)
FrameEncode ==
    /\ Len(heap) < MaxObjects
    /\ held.keys # 0 /\ held.fields # 0
    /\ heap' = Alloc(heap, VectorizeWithCats(heap[held.fields], heap[held.keys],
                                             heap[held.cat_map]).val)
    /\ held' = [held EXCEPT !.out = NewRef(heap)]
    /\ UNCHANGED <<pipelineVars, forwarderVars>>

\* out = vectorize_features(fields, keys): the list of the comprehension
FrameEncodeFeatures ==
    /\ Len(heap) < MaxObjects
    /\ held.keys # 0 /\ held.fields # 0
    /\ heap' = Alloc(heap, VectorizeFeatures(heap[held.fields], heap[held.keys]).val)
    /\ held' = [held EXCEPT !.out = NewRef(heap)]
    /\ UNCHANGED <<pipelineVars, forwarderVars>>

FrameCorpusSamples ==
    {TempModeSample(PyFloat(21, <<"5">>), V_auto),
     MkSample(PyDict(<<<<N_mode, PyStr(V_manual)>>>>))}

FrameEncodeSamples == {ScenarioSample, MkSample(PyStr(V_not_json))}

\* builds, rebuilds on a corpus that grew, extractions and encodings in any order
NextFrame ==
    \/ \E s \in FrameCorpusSamples : AddSample(s)
    \/ FrameBuild(DefaultMaxOhe)
    \/ \E s \in FrameEncodeSamples : FrameExtract(s)
    \/ FrameEncode
    \/ FrameEncodeFeatures

SpecFrame == Init /\ [][NextFrame]_vars

\* the caller still holds the objects of the first schema, and they are as
\* they were
SchemaKept ==
    held.keys # 0 =>
        /\ held'.keys = held.keys /\ held'.cat_map = held.cat_map
        /\ heap'[held.keys] = heap[held.keys]
        /\ heap'[held.cat_map] = heap[held.cat_map]

\* a FieldMap the caller holds is as it was
FieldMapKept == held.fields # 0 => heap'[held.fields] = heap[held.fields]

\* a build that returned gave what its arguments alone determine
BuildFromArguments ==
    held'.new_keys # held.new_keys =>
        /\ heap'[held'.new_keys] = BuildKeysFromSamples(corpus, DefaultMaxOhe).keys
        /\ heap'[held'.new_cat_map] = BuildKeysFromSamples(corpus, DefaultMaxOhe).cat_map

\* the objects of a rebuild are not those of the first schema
RebuildIsNew ==
    held.new_keys # 0 =>
        {held.new_keys, held.new_cat_map} \cap {held.keys, held.cat_map, held.fields} = {}

\* C13: a built schema is never mutated: over any sequence of
\* vectorize_with_cats and vectorize_features calls and of further
\* build_keys_from_samples calls on other corpora, the column list and the
\* category plan of the schema built first and the FieldMaps given to the
\* encoder stay as they were, and a rebuild returns new objects whose content
\* depends on its arguments only.
SchemaNeverMutated ==
    /\ []RebuildIsNew
    /\ [][SchemaKept /\ FieldMapKept /\ BuildFromArguments]_vars

\* a schema was built, a FieldMap encoded against it, and a rebuild on a
\* corpus that grew gave other columns
SchemaNeverMutatedWitness ==
    /\ held.keys # 0 /\ held.new_keys # 0 /\ held.out # 0
    /\ held.out < held.new_keys
    /\ heap[held.new_keys] # heap[held.keys]
    /\ heap[held.new_cat_map] # heap[held.cat_map]

(***************************************************************************)
(* What the encoder reads back from a column name                          *)
(***************************************************************************)

\* the encoder reads a column name as a one-hot column
ReadAsOneHot(key) == Contains(key, IsSep)

\* the (field, category) the encoder reads from the column of category c of
\* field f is (f, c)
ReadsBack(f, c) ==
    /\ Partition(f \o IsSep \o c, IsSep)[1] = f
    /\ Partition(f \o IsSep \o c, IsSep)[3] = c

\* C14: the column names of build_keys_from_samples are pairwise distinct, no
\* numeric column is read as a one-hot column, every one-hot column
\* <field>__is_<c> is read back as the (field, c) it was made from, and
\* <field>__is_other is the overflow column only.
ColumnNamesUnambiguous ==
    schema.built =>
        /\ \A i, j \in 1..Len(schema.keys) : i # j => schema.keys[i] # schema.keys[j]
        /\ \A k \in NumericNames : ~ReadAsOneHot(k)
        /\ \A g \in 1..Len(schema.cat_map) :
               /\ ReadsBack(schema.cat_map[g][1], OtherStr)
               /\ \A j \in 1..Len(schema.cat_map[g][2]) :
                      /\ ReadsBack(schema.cat_map[g][1], schema.cat_map[g][2][j])
                      /\ schema.cat_map[g][2][j] # OtherStr

(***************************************************************************)
(* sample/app.py: the polling loop of the forwarder                        *)
(***************************************************************************)

MaxEvents == 6

\* the limit of get_latest_events(5)
PollLimit == 5

\* the events Core Data returns for offset 0 and a limit: the newest first
LatestEvents(n, limit) == [i \in 1..Min(n, limit) |-> n - i + 1]

\* get_latest_events(5): the events, or [] when the request fails
GetLatestEvents(up) == IF up THEN LatestEvents(core_events, PollLimit) ELSE <<>>

\* reversed(events)
Reversed(seq) == [i \in 1..Len(seq) |-> seq[Len(seq) - i + 1]]

\* the for loop over reversed(events): break on the event whose id is
\* last_event_id, else forward the event and, when that returned True, make
\* it last_event_id. failed holds the events whose forwarding returns False;
\* sent collects the events given to forward_event_to_app_service
RECURSIVE ForwardLoop(_, _, _, _)
ForwardLoop(evs, last, sent, failed) ==
    IF evs = <<>> THEN [last |-> last, sent |-> sent]
    ELSE IF last # 0 /\ evs[1] = last THEN [last |-> last, sent |-> sent]
    ELSE ForwardLoop(Tail(evs), IF evs[1] \in failed THEN last ELSE evs[1],
                     Append(sent, evs[1]), failed)

\* the state after one pass of the while loop over events
Polled(events, loop) ==
    /\ window' = events
    /\ batch' = loop.sent
    /\ last_event_id' = IF events # <<>> THEN events[1] ELSE loop.last
    /\ last_before' = last_event_id
    /\ seen_before' = seen_before \cup SeqSetOf(batch)

\* one pass over the events of a poll
PollEvents(events, failed) ==
    Polled(events, ForwardLoop(Reversed(events), last_event_id, <<>>, failed))

\* one pass of the while loop of main
Poll(up, failed) ==
    /\ PollEvents(GetLatestEvents(up), failed)
    /\ UNCHANGED <<core_events, pipelineVars, frameVars>>

\* a device sends one more event to Core Data
CreateEvent ==
    /\ core_events < MaxEvents
    /\ core_events' = core_events + 1
    /\ UNCHANGED <<last_event_id, window, batch, seen_before, last_before>>
    /\ UNCHANGED <<pipelineVars, frameVars>>

NextForwarder ==
    \/ CreateEvent
    \/ \E up \in BOOLEAN : \E failed \in SUBSET (1..core_events) : Poll(up, failed)

SpecForwarder == Init /\ [][NextForwarder]_vars

\* C15: over any sequence of polls, each returning the newest (at most 5)
\* events newest first, an event forwarded in an earlier poll is not forwarded
\* again, and an event of the poll newer than the last processed one is
\* forwarded.
ForwardedOnce ==
    /\ \A e \in SeqSetOf(batch) : e \notin seen_before
    /\ \A e \in SeqSetOf(window) : e > last_before => e \in SeqSetOf(batch)

====
